---- MODULE Spec2Model ----
(***************************************************************************)
(* Model of the game backend: index.js (src/unnamed/part_000) and the      *)
(* helper module it imports as ./leaderboard.js (src/unnamed/part_003).    *)
(*                                                                         *)
(* Node runs every handler on one thread: a handler runs without           *)
(* interruption from one `await` to the next.  Each action below is one    *)
(* such run: it starts where a handler is invoked or where an awaited      *)
(* promise settles, and ends at the next await or at the return.  An       *)
(* awaited database query or ledger call settles either way (resolved or   *)
(* rejected); the outcome is drawn with \E.                                *)
(*                                                                         *)
(* Times are in model ticks; the millisecond values of the source do not   *)
(* fit TLC's integers and are scaled down.                                 *)
(***************************************************************************)
EXTENDS Integers, Sequences, FiniteSets, TLC

----------------------------------------------------------------------------
(* Bounds of the model *)

MaxNow == 3              \* the clock runs from DURATION_MS to MaxNow
MaxCalls == 3            \* settle invocations in one behaviour

(* Configuration (environment variables of index.js) *)
DURATION_MS == 2         \* process.env.DURATION_MS, in ticks
FRIDAY_0_UTC == 0        \* the epoch anchor of computePeriod, in ticks
SettleOffset == 1        \* the `- 1000` of process-now and cron, in ticks

Addrs == {"a1", "a2"}
PoolBalances == {0, 1000}    \* values contract.poolBalance() may return

SettleProcs == {"cron", "now1", "now2"}
NowProcs == {"now1", "now2"}

Null == "null"

----------------------------------------------------------------------------
(* Pure helpers *)

\* leaderboard.js computePeriod: periodIndex = floor((ts - anchor) / D)
FloorDiv(a, b) == IF a >= 0 THEN a \div b ELSE -((-a + b - 1) \div b)

\* A period index that truncates toward zero instead of flooring.
computePeriodTruncating(ts, D) ==
  LET a == ts - FRIDAY_0_UTC
      periodIndex == IF a >= 0 THEN a \div D ELSE 0 - ((0 - a) \div D)
  IN [periodIndex |-> periodIndex,
      periodStart |-> FRIDAY_0_UTC + periodIndex * D,
      periodEnd   |-> FRIDAY_0_UTC + (periodIndex + 1) * D]

computePeriod(ts, D) ==
  LET periodIndex == FloorDiv(ts - FRIDAY_0_UTC, D)
  IN [periodIndex |-> periodIndex,
      periodStart |-> FRIDAY_0_UTC + periodIndex * D,
      periodEnd   |-> FRIDAY_0_UTC + (periodIndex + 1) * D]

Periods == { computePeriod(t - SettleOffset, DURATION_MS).periodIndex : t \in DURATION_MS..(MaxNow + 1) }

RECURSIVE SumSeq(_)
SumSeq(s) == IF s = <<>> THEN 0 ELSE Head(s) + SumSeq(Tail(s))

\* An insertion that puts a record before the records of equal score.
RECURSIVE InsertDescBeforeEquals(_, _)
InsertDescBeforeEquals(r, s) ==
  IF s = <<>> THEN <<r>>
  ELSE IF Head(s).highest_score > r.highest_score
       THEN <<Head(s)>> \o InsertDescBeforeEquals(r, Tail(s))
       ELSE <<r>> \o s

\* Array.prototype.sort with (a, b) => b.highest_score - a.highest_score:
\* a stable sort, descending by highest_score.
RECURSIVE InsertDesc(_, _)
InsertDesc(r, s) ==
  IF s = <<>> THEN <<r>>
  ELSE IF Head(s).highest_score >= r.highest_score
       THEN <<Head(s)>> \o InsertDesc(r, Tail(s))
       ELSE <<r>> \o s

RECURSIVE SortDesc(_)
SortDesc(s) ==
  IF s = <<>> THEN <<>>
  ELSE LET n == Len(s) IN InsertDesc(s[n], SortDesc(SubSeq(s, 1, n - 1)))

Take(s, n) == SubSeq(s, 1, IF Len(s) < n THEN Len(s) ELSE n)

----------------------------------------------------------------------------
(* State *)

VARIABLES
  now,            \* Date.now(), in ticks
  calls,          \* settle invocations so far (bounded by MaxCalls)
  scores,         \* db.scores, in insertion order (Object.values order)
  periods,        \* db.periods: period index -> record, NoRecord when absent
  spc,            \* where each settle invocation is suspended
  sloc,           \* the locals of each settle invocation
  txCount,        \* transactions the ledger has accepted (gives tx.hash)
  confirmedPays,  \* per period, payPlayers transactions confirmed (history)
  blocked,        \* whether the guard has turned an invocation away (history)
  SESSIONS,       \* the SESSIONS map: session id -> session
  verified_plays, \* the verified_plays table (unique index on replay_hash)
  rpc,            \* where each submit request is suspended
  rloc,           \* the locals and the response of each submit request
  profileNames,   \* db.profileNames: normalized name -> owner, Null when absent
  ret             \* what the last read-only call returned

settleVars == <<calls, periods, spc, sloc, txCount, confirmedPays, blocked>>
submitVars == <<SESSIONS, verified_plays, rpc, rloc>>
restVars == <<profileNames, ret>>
vars == <<now, scores, settleVars, submitVars, restVars>>

\* A PeriodRecord as savePeriod leaves it in db.periods.  A missing or falsy
\* field is Null (0 for the hash); payouts is null unless hasPayouts.
PeriodObj(status, txHash, hasPayouts, payouts, error) ==
  [status |-> status, txHash |-> txHash, hasPayouts |-> hasPayouts,
   payouts |-> payouts, error |-> error]

NoRecord == PeriodObj("open", 0, FALSE, <<>>, Null)

\* A record of db.scores.  last_updated is left out: nothing reads it.
ScoreRecord(addr, profile_name, email, hs, last, games, level) ==
  [user_address |-> addr, profile_name |-> profile_name, email |-> email,
   highest_score |-> hs, last_score |-> last, games_played |-> games,
   level |-> level]

IdleLoc ==
  [p |-> 0, periodObj |-> NoRecord,
   result |-> [winners |-> <<>>, amounts |-> <<>>, house |-> 0, poolBalanceBN |-> 0],
   tx |-> 0, log |-> <<>>, payFailed |-> FALSE]

----------------------------------------------------------------------------
(* computeWinnersFromOffchain(contract, db), after contract.poolBalance()   *)
(* has settled: `ok` tells whether it resolved, `pb` the balance it gave.   *)

distributionPercents(n) ==
  [i \in 1..n |-> IF i = 1 THEN 48 ELSE IF i = 2 THEN 29 ELSE IF i = 3 THEN 9 ELSE 2]

EmptyResult(pb) ==
  [winners |-> <<>>, amounts |-> <<>>, house |-> 0, poolBalanceBN |-> pb]

\* A split that shares out the whole balance and takes the house fee on top.
computeWinnersNoFeeDeduction(ok, pb, dbScores) ==
  IF ~ok \/ pb = 0 THEN EmptyResult(0)
  ELSE IF Len(dbScores) = 0 THEN EmptyResult(pb)
  ELSE
    LET topPlayers   == Take(SortDesc(dbScores), 10)
        percents     == distributionPercents(Len(topPlayers))
        totalPercent == SumSeq(percents)
        shares       == [i \in 1..Len(topPlayers) |-> (pb * percents[i]) \div totalPercent]
    IN [winners |-> [i \in 1..Len(topPlayers) |-> topPlayers[i].user_address],
        amounts |-> [shares EXCEPT ![1] = shares[1] + (pb - SumSeq(shares))],
        house |-> (pb * 30) \div 100,
        poolBalanceBN |-> pb]

\* A split that adds the residual of the division to the last winner.
computeWinnersRemainderToLast(ok, pb, dbScores) ==
  IF ~ok \/ pb = 0 THEN EmptyResult(0)
  ELSE IF Len(dbScores) = 0 THEN EmptyResult(pb)
  ELSE
    LET topPlayers   == Take(SortDesc(dbScores), 10)
        n            == Len(topPlayers)
        houseFeeBN   == (pb * 30) \div 100
        payoutPoolBN == pb - houseFeeBN
        percents     == distributionPercents(n)
        totalPercent == SumSeq(percents)
        shares       == [i \in 1..n |-> (payoutPoolBN * percents[i]) \div totalPercent]
    IN [winners |-> [i \in 1..n |-> topPlayers[i].user_address],
        amounts |-> [shares EXCEPT ![n] = shares[n] + (payoutPoolBN - SumSeq(shares))],
        house |-> houseFeeBN,
        poolBalanceBN |-> pb]

computeWinnersFromOffchain(ok, pb, dbScores) ==
  IF ~ok THEN EmptyResult(0)
  ELSE IF pb = 0 THEN EmptyResult(0)
  ELSE IF Len(dbScores) = 0 THEN EmptyResult(pb)
  ELSE
    LET topPlayers   == Take(SortDesc(dbScores), 10)
        houseFeeBN   == (pb * 30) \div 100
        payoutPoolBN == pb - houseFeeBN
        percents     == distributionPercents(Len(topPlayers))
        totalPercent == SumSeq(percents)
        shares       == [i \in 1..Len(topPlayers) |->
                           (payoutPoolBN * percents[i]) \div totalPercent]
        remainder    == payoutPoolBN - SumSeq(shares)
        amounts      == IF remainder > 0
                        THEN [shares EXCEPT ![1] = shares[1] + remainder]
                        ELSE shares
    IN [winners |-> [i \in 1..Len(topPlayers) |-> topPlayers[i].user_address],
        amounts |-> amounts,
        house |-> houseFeeBN,
        poolBalanceBN |-> pb]

\* BigInt(result.house1 || "0"): the field, or 0 when the result has none.
FieldOrZero(result, name) ==
  IF name \in DOMAIN result THEN result[name] ELSE 0

----------------------------------------------------------------------------
(* processPeriod(contract, db, periodIndex, TOP_N, HOUSE_FEE_BPS, opts)     *)

\* The ledger contract has payHouse and resetPayments (spec section 6), so
\* both `typeof contract.x === "function"` tests are true.
HasPayHouse == TRUE
HasResetPayments == TRUE

\* err?.message || String(err) of the outer catch: the text of whatever was
\* thrown, one opaque value here.
ErrMsg == "error"

\* A guard that forgets the in-flight status.
GuardBlocksPaidOnly(existing) ==
  existing.status = "paid"

\* A guard that lets a period through that was paid to nobody.
GuardBlocksUnlessEmpty(existing) ==
  \/ existing.status = "processing"
  \/ existing.status = "paid" /\ existing.payouts # <<>>

\* The idempotency guard: existing?.status === "processing" || "paid"
GuardBlocks(existing) ==
  existing.status = "processing" \/ existing.status = "paid"

\* savePeriod, once its query has resolved: db.periods[periodIndex] takes
\* the fields of the periodObj that was passed when savePeriod was called.
savePeriodWrite(self) ==
  [periods EXCEPT ![sloc[self].p] = sloc[self].periodObj]

\* return, or an exception leaving processPeriod: the handler (process-now
\* or cron) answers and the invocation is over.
Return(self) ==
  /\ spc' = [spc EXCEPT ![self] = "idle"]
  /\ sloc' = [sloc EXCEPT ![self] = IdleLoc]

\* A catch that only logs: the record in memory stays as it was.
OnErrorLogOnly(self, msg, payFailure) ==
  LET obj == PeriodObj("failed", 0, FALSE, <<>>, msg) IN
  /\ UNCHANGED periods
  /\ spc' = [spc EXCEPT ![self] = "saveFailed"]
  /\ sloc' = [sloc EXCEPT ![self].periodObj = obj,
                          ![self].payFailed = payFailure]

\* A catch that records the failure without its message.
OnErrorNoMessage(self, msg, payFailure) ==
  LET obj == PeriodObj("failed", 0, FALSE, <<>>, Null) IN
  /\ periods' = [periods EXCEPT ![sloc[self].p] = obj]
  /\ spc' = [spc EXCEPT ![self] = "saveFailed"]
  /\ sloc' = [sloc EXCEPT ![self].periodObj = obj,
                          ![self].payFailed = payFailure]

\* The outer catch: mark the period failed in memory, then await savePeriod.
OnError(self, msg, payFailure) ==
  LET obj == PeriodObj("failed", 0, FALSE, <<>>, msg) IN
  /\ periods' = [periods EXCEPT ![sloc[self].p] = obj]
  /\ spc' = [spc EXCEPT ![self] = "saveFailed"]
  /\ sloc' = [sloc EXCEPT ![self].periodObj = obj,
                          ![self].payFailed = payFailure]

\* A paid record that leaves the transaction hash out.
RecordPaidNoHash(self, log) ==
  LET r == sloc[self].result
      obj == PeriodObj("paid", 0, TRUE,
                       [i \in 1..Len(r.winners) |->
                          [to |-> r.winners[i], amount |-> r.amounts[i]]],
                       Null) IN
  /\ periods' = [periods EXCEPT ![sloc[self].p] = obj]
  /\ spc' = [spc EXCEPT ![self] = "savePaid"]
  /\ sloc' = [sloc EXCEPT ![self].periodObj = obj, ![self].log = log]

\* Lines 396-404: build the paid record, put it in memory, await savePeriod.
RecordPaid(self, log) ==
  LET r == sloc[self].result
      obj == PeriodObj("paid", sloc[self].tx, TRUE,
                       [i \in 1..Len(r.winners) |->
                          [to |-> r.winners[i], amount |-> r.amounts[i]]],
                       Null) IN
  /\ periods' = [periods EXCEPT ![sloc[self].p] = obj]
  /\ spc' = [spc EXCEPT ![self] = "savePaid"]
  /\ sloc' = [sloc EXCEPT ![self].periodObj = obj, ![self].log = log]

\* Lines 385-394: call resetPayments when the contract has it.
StartReset(self, log) ==
  IF HasResetPayments
  THEN /\ spc' = [spc EXCEPT ![self] = "resetPayments"]
       /\ sloc' = [sloc EXCEPT ![self].log = Append(log, "resetPayments")]
       /\ UNCHANGED periods
  ELSE RecordPaid(self, log)

\* Lines 371-383: pay the house when result.house1 / result.house2 give a
\* positive amount.
StartHouse(self, log) ==
  LET h1 == FieldOrZero(sloc[self].result, "house1")
      h2 == FieldOrZero(sloc[self].result, "house2") IN
  IF (h1 > 0 \/ h2 > 0) /\ HasPayHouse
  THEN /\ spc' = [spc EXCEPT ![self] = "payHouse"]
       /\ sloc' = [sloc EXCEPT ![self].log = Append(log, "payHouse")]
       /\ UNCHANGED periods
  ELSE StartReset(self, log)

\* Lines 335-345: the guard and the mark, up to the first await.
Settle(self, periodIndex) ==
  IF GuardBlocks(periods[periodIndex])
  THEN /\ blocked' = TRUE
       /\ UNCHANGED <<periods, spc, sloc>>
  ELSE LET obj == PeriodObj("processing", 0, FALSE, <<>>, Null) IN
       /\ UNCHANGED blocked
       /\ periods' = [periods EXCEPT ![periodIndex] = obj]
       /\ spc' = [spc EXCEPT ![self] = "saveProcessing"]
       /\ sloc' = [sloc EXCEPT ![self] = [IdleLoc EXCEPT !.p = periodIndex,
                                                          !.periodObj = obj]]

\* POST /api/process-now.  Requests are anonymous: a new one takes the first
\* free slot of NowProcs.
ProcessNow(self) ==
  /\ spc[self] = "idle"
  /\ self = "now2" => spc["now1"] # "idle"
  /\ calls < MaxCalls
  /\ calls' = calls + 1
  /\ Settle(self, computePeriod(now - SettleOffset, DURATION_MS).periodIndex)
  /\ UNCHANGED <<restVars, now, scores, submitVars, txCount, confirmedPays>>

\* The cron job's callback
CronJob(self) ==
  /\ spc[self] = "idle"
  /\ calls < MaxCalls
  /\ calls' = calls + 1
  /\ Settle(self, computePeriod(now - SettleOffset, DURATION_MS).periodIndex)
  /\ UNCHANGED <<restVars, now, scores, submitVars, txCount, confirmedPays>>

\* Line 345: savePeriod(processing) settles.  It is outside the try: a
\* rejection leaves processPeriod as an exception.
SaveProcessingDone(self) ==
  /\ spc[self] = "saveProcessing"
  /\ \E ok \in BOOLEAN :
       IF ok
       THEN /\ periods' = savePeriodWrite(self)
            /\ spc' = [spc EXCEPT ![self] = "poolBalance"]
            /\ UNCHANGED sloc
       ELSE /\ Return(self)
            /\ UNCHANGED periods
  /\ UNCHANGED <<restVars, now, scores, submitVars, calls, txCount, confirmedPays, blocked>>

\* Lines 349-363: contract.poolBalance() settles; winners are computed from
\* db.scores as it is now; with no winner the period is recorded paid, else
\* contract.payPlayers is called.
PoolBalanceDone(self) ==
  /\ spc[self] = "poolBalance"
  /\ \E ok \in BOOLEAN, pb \in PoolBalances :
       LET result == computeWinnersFromOffchain(ok, pb, scores) IN
       IF Len(result.winners) = 0
       THEN LET obj == PeriodObj("paid", 0, TRUE, <<>>, Null) IN
            /\ periods' = [periods EXCEPT ![sloc[self].p] = obj]
            /\ spc' = [spc EXCEPT ![self] = "saveNoWinners"]
            /\ sloc' = [sloc EXCEPT ![self].periodObj = obj,
                                    ![self].result = result,
                                    ![self].log = IF ok THEN <<>>
                                                  ELSE <<"poolBalance failed">>]
       ELSE /\ spc' = [spc EXCEPT ![self] = "payPlayers"]
            /\ sloc' = [sloc EXCEPT ![self].result = result,
                                    ![self].log = <<"payPlayers">>]
            /\ UNCHANGED periods
  /\ UNCHANGED <<restVars, now, scores, submitVars, calls, txCount, confirmedPays, blocked>>

\* Line 363: contract.payPlayers(winners, amounts) settles.
PayPlayersSent(self) ==
  /\ spc[self] = "payPlayers"
  /\ \E ok \in BOOLEAN :
       IF ok
       THEN /\ txCount' = txCount + 1
            /\ spc' = [spc EXCEPT ![self] = "payPlayersWait"]
            /\ sloc' = [sloc EXCEPT ![self].tx = txCount + 1]
            /\ UNCHANGED periods
       ELSE /\ OnError(self, ErrMsg, TRUE)
            /\ UNCHANGED txCount
  /\ UNCHANGED <<restVars, now, scores, submitVars, calls, confirmedPays, blocked>>

\* Line 364: tx.wait(1) settles; on confirmation the house and reset
\* follow-ups begin.
PayPlayersConfirmed(self) ==
  /\ spc[self] = "payPlayersWait"
  /\ \E ok \in BOOLEAN :
       IF ok
       THEN /\ confirmedPays' = [confirmedPays EXCEPT ![sloc[self].p] = @ + 1]
            /\ StartHouse(self, Append(sloc[self].log, "payPlayers confirmed"))
       ELSE /\ OnError(self, ErrMsg, TRUE)
            /\ UNCHANGED confirmedPays
  /\ UNCHANGED <<restVars, now, scores, submitVars, calls, txCount, blocked>>

\* Lines 376-393: a house or reset call, or its confirmation wait, settles.
\* A payHouse failure is rethrown to the outer catch; a resetPayments
\* failure is logged and the period is recorded paid all the same.
FollowUpDone(self) ==
  /\ spc[self] \in {"payHouse", "payHouseWait", "resetPayments", "resetPaymentsWait"}
  /\ \E ok \in BOOLEAN :
       CASE spc[self] = "payHouse" ->
              IF ok THEN /\ spc' = [spc EXCEPT ![self] = "payHouseWait"]
                         /\ UNCHANGED <<periods, sloc>>
                    ELSE OnError(self, ErrMsg, FALSE)
         [] spc[self] = "payHouseWait" ->
              IF ok THEN StartReset(self, Append(sloc[self].log, "payHouse confirmed"))
                    ELSE OnError(self, ErrMsg, FALSE)
         [] spc[self] = "resetPayments" ->
              IF ok THEN /\ spc' = [spc EXCEPT ![self] = "resetPaymentsWait"]
                         /\ UNCHANGED <<periods, sloc>>
                    ELSE RecordPaid(self, Append(sloc[self].log, "resetPayments failed"))
         [] spc[self] = "resetPaymentsWait" ->
              IF ok THEN RecordPaid(self, Append(sloc[self].log, "resetPayments confirmed"))
                    ELSE RecordPaid(self, Append(sloc[self].log, "resetPayments failed"))
  /\ UNCHANGED <<restVars, now, scores, submitVars, calls, txCount, confirmedPays, blocked>>

\* Lines 354 and 404: savePeriod(paid) settles.  Both are inside the try: a
\* rejection goes to the outer catch.
SavePaidDone(self) ==
  /\ spc[self] \in {"saveNoWinners", "savePaid"}
  /\ \E ok \in BOOLEAN :
       IF ok
       THEN /\ periods' = savePeriodWrite(self)
            /\ Return(self)
       ELSE OnError(self, ErrMsg, FALSE)
  /\ UNCHANGED <<restVars, now, scores, submitVars, calls, txCount, confirmedPays, blocked>>

\* Line 409: savePeriod(failed) settles; a rejection leaves processPeriod
\* as an exception.
SaveFailedDone(self) ==
  /\ spc[self] = "saveFailed"
  /\ \E ok \in BOOLEAN :
       /\ periods' = IF ok THEN savePeriodWrite(self) ELSE periods
       /\ Return(self)
  /\ UNCHANGED <<restVars, now, scores, submitVars, calls, txCount, confirmedPays, blocked>>

\* Time passes.
Tick ==
  /\ now < MaxNow
  /\ now' = now + 1
  /\ UNCHANGED <<scores, settleVars, submitVars, restVars>>

----------------------------------------------------------------------------
(* Sessions, replay verification and the score handlers (index.js)         *)

SessionIds == {"s1", "s2"}
Reqs == {"r1", "r2"}
SESSION_TTL == 1         \* the 22 * 60 * 1000 of start-session, in ticks
NullScore == -1          \* last_score: null
MAX_ENTRIES == 5000

\* Profile names as the clients send them, trimmed.
ProfileRaw == {"n1", "N1", "n2"}

\* normalizeProfileName: String(name || "").trim().toLowerCase()
normalizeProfileName(name) == IF name = "N1" THEN "n1" ELSE name

\* The empty name index.
NoNames == [n \in {normalizeProfileName(raw) : raw \in ProfileRaw} |-> Null]
NoRet == [fn |-> "none"]

NoSession == [state |-> "fresh", used |-> FALSE, expiresAt |-> 0]

Ev(t, sc) == [time |-> t, score |-> sc]

\* Request bodies.  A replay is <<>> when the field is missing, a
\* one-element tuple holding the array of events when it is an array, and a
\* two-element tuple when it is some other value (an object, a string).
ReplayInputs ==
  { <<>>,
    <<"object", <<>>>>,
    << <<>> >>,
    << <<Ev(0 - 1, 5)>> >>,
    << <<Ev(0, 5)>> >>,
    << <<Ev(0, 3), Ev(1, 8)>> >> }
ScoreInputs == {5, 8}
ProfileInputs == {Null}
EmailInputs == {Null}
LevelInputs == {<<>>}    \* <<>>: no level in the body, <<n>>: level n

\* json-stable-stringify(replay): every event with its keys in sorted order.
Canonical(events) ==
  [i \in 1..Len(events) |-> <<"score", events[i].score, "time", events[i].time>>]

\* keccak256(toUtf8Bytes(canonical)): the hash stands for its preimage.
ReplayHash(events) == Canonical(events)

\* Lines 262-279: index of the first entry with a negative time or score,
\* 0 when there is none.
RECURSIVE FirstInvalid(_, _)
FirstInvalid(events, i) ==
  IF i > Len(events) THEN 0
  ELSE IF events[i].time < 0 \/ events[i].score < 0 THEN i
  ELSE FirstInvalid(events, i + 1)

\* `if (t < lastTime) monotonic = false` over the whole array.
Monotonic(events) ==
  \A i \in 2..Len(events) : events[i].time >= events[i - 1].time

RECURSIVE MaxScore(_)
MaxScore(events) ==
  IF Len(events) = 1 THEN events[1].score
  ELSE LET m == MaxScore(Tail(events)) IN
       IF events[1].score > m THEN events[1].score ELSE m

\* A score that is the last entry's whatever the order of the times.
ServerScoreLast(events) == events[Len(events)].score

\* Lines 286-289
ServerScore(events) ==
  IF Monotonic(events) THEN events[Len(events)].score ELSE MaxScore(events)

ServerSurvival(events) == events[Len(events)].time

NoSaved == ScoreRecord("", Null, Null, 0, NullScore, 0, 1)

Resp(status, error) == [status |-> status, error |-> error]

IdleReq ==
  [kind |-> "none", sessionId |-> "", addr |-> "", rHash |-> <<>>,
   serverScore |-> 0, level |-> <<>>, profile_name |-> Null, email |-> Null,
   saved |-> NoSaved, oldNormalized |-> Null, resp |-> Resp(0, Null)]

\* db.scores[addr]
HasScore(store, addr) == \E i \in 1..Len(store) : store[i].user_address = addr
ScoreIndex(store, addr) == CHOOSE i \in 1..Len(store) : store[i].user_address = addr
ScoreOf(store, addr) == store[ScoreIndex(store, addr)]

\* db.scores[addr] = rec: an existing key keeps its place, a new one is last.
PutScore(store, rec) ==
  IF HasScore(store, rec.user_address)
  THEN [store EXCEPT ![ScoreIndex(store, rec.user_address)] = rec]
  ELSE Append(store, rec)

\* Lines 325-352 (submit-replay) and 383-407 (submit-score): the record of
\* addr in memory after the update.
UpdatedScore(store, addr, intScore, level, profile_name, email) ==
  LET intLevel == IF level # <<>>
                  THEN (IF level[1] > 1 THEN level[1] ELSE 1)
                  ELSE (IF HasScore(store, addr) THEN ScoreOf(store, addr).level ELSE 1)
      old == IF HasScore(store, addr) THEN ScoreOf(store, addr)
             ELSE ScoreRecord(addr, Null, Null, 0, NullScore, 0, intLevel)
  IN ScoreRecord(addr,
                 IF profile_name # Null THEN profile_name ELSE old.profile_name,
                 IF email # Null THEN email ELSE old.email,
                 IF intScore > old.highest_score THEN intScore ELSE old.highest_score,
                 intScore,
                 old.games_played + 1,
                 intLevel)

\* POST /api/start-session
StartSession ==
  /\ \E sid \in SessionIds :
       /\ SESSIONS[sid].state = "fresh"
       /\ SESSIONS' = [SESSIONS EXCEPT ![sid] =
            [state |-> "stored", used |-> FALSE, expiresAt |-> now + SESSION_TTL]]
  /\ UNCHANGED <<restVars, now, scores, settleVars, verified_plays, rpc, rloc>>

\* The handler answers: the request is over.
Respond(self, loc, status, error) ==
  /\ rpc' = [rpc EXCEPT ![self] = "done"]
  /\ rloc' = [rloc EXCEPT ![self] = [loc EXCEPT !.resp = Resp(status, error)]]

\* A rejection that consumes the session it was given.
RejectConsuming(self, loc, status, error) ==
  /\ Respond(self, loc, status, error)
  /\ SESSIONS' = [SESSIONS EXCEPT ![loc.sessionId] =
       [@ EXCEPT !.state = "deleted", !.used = TRUE]]
  /\ UNCHANGED <<scores, verified_plays>>

\* An early `return res.status(4xx).json(...)` of submit-replay: nothing but
\* the answer.
Reject(self, loc, status, error) ==
  /\ Respond(self, loc, status, error)
  /\ UNCHANGED <<scores, SESSIONS, verified_plays>>

\* POST /api/submit-replay, lines 220-297: validation up to the duplicate
\* query.  SESSIONS.get gives nothing for an id never issued or deleted.
SubmitReplay(self) ==
  /\ rpc[self] = "idle"
  /\ \E sid \in SessionIds, addr \in Addrs, replay \in ReplayInputs,
        profile_name \in ProfileInputs, email \in EmailInputs, level \in LevelInputs :
       LET s == SESSIONS[sid]
           loc == [IdleReq EXCEPT !.kind = "replay", !.sessionId = sid, !.addr = addr,
                                  !.level = level, !.profile_name = profile_name,
                                  !.email = email]
       IN
       IF replay = <<>> THEN Reject(self, loc, 400, "missing sessionId or replay")
       ELSE IF s.state # "stored" THEN Reject(self, loc, 400, "session not found")
       ELSE IF s.used THEN Reject(self, loc, 400, "session already used")
       ELSE IF now > s.expiresAt THEN Reject(self, loc, 400, "session expired")
       ELSE IF Len(replay) = 2 THEN Reject(self, loc, 400, "replay must be an array")
       ELSE LET events == replay[1] IN
         IF Len(events) = 0 \/ Len(events) > MAX_ENTRIES
         THEN Reject(self, loc, 400, "replay must have 1..MAX_ENTRIES entries")
         ELSE IF FirstInvalid(events, 1) # 0
         THEN Reject(self, loc, 400, "invalid time/score")
         ELSE /\ rpc' = [rpc EXCEPT ![self] = "dupCheck"]
              /\ rloc' = [rloc EXCEPT ![self] =
                   [loc EXCEPT !.rHash = ReplayHash(events),
                               !.serverScore = ServerScore(events)]]
              /\ UNCHANGED <<scores, SESSIONS, verified_plays>>
  /\ UNCHANGED <<restVars, now, settleVars>>

\* Lines 294-317: the duplicate query settles; with no row for the hash the
\* INSERT is sent.
DupCheckDone(self) ==
  /\ rpc[self] = "dupCheck"
  /\ \E ok \in BOOLEAN :
       IF ~ok THEN /\ Respond(self, rloc[self], 500, "db error")
                   /\ UNCHANGED <<scores, SESSIONS, verified_plays>>
       ELSE IF \E row \in verified_plays : row.replay_hash = rloc[self].rHash
       THEN Reject(self, rloc[self], 409, "replay already submitted")
       ELSE /\ rpc' = [rpc EXCEPT ![self] = "insert"]
            /\ UNCHANGED <<rloc, scores, SESSIONS, verified_plays>>
  /\ UNCHANGED <<restVars, now, settleVars>>

\* Lines 304-354: the INSERT settles (the unique index rejects a second row
\* with the same hash); then the session is marked used and deleted, the
\* score record is updated in memory and saveScore is called, which reads
\* the record's fields and sends its query.
InsertDone(self) ==
  /\ rpc[self] = "insert"
  /\ \E ok \in BOOLEAN :
       LET loc == rloc[self] IN
       IF ~ok
       THEN /\ Respond(self, loc, 500, "db error")
            /\ UNCHANGED <<scores, SESSIONS, verified_plays>>
       ELSE IF \E row \in verified_plays : row.replay_hash = loc.rHash
       THEN /\ Respond(self, loc, 500, "duplicate key value violates unique constraint")
            /\ UNCHANGED <<scores, SESSIONS, verified_plays>>
       ELSE LET rec == UpdatedScore(scores, loc.addr, loc.serverScore, loc.level,
                                    loc.profile_name, loc.email) IN
            /\ verified_plays' = verified_plays \cup
                 {[session_id |-> loc.sessionId, user_address |-> loc.addr,
                   replay_hash |-> loc.rHash, score |-> loc.serverScore]}
            /\ SESSIONS' = [SESSIONS EXCEPT ![loc.sessionId] =
                 [@ EXCEPT !.state = "deleted", !.used = TRUE]]
            /\ scores' = PutScore(scores, rec)
            /\ rpc' = [rpc EXCEPT ![self] = "saveScore"]
            /\ rloc' = [rloc EXCEPT ![self].saved = rec]
  /\ UNCHANGED <<restVars, now, settleVars>>

\* POST /api/submit-score, lines 378-410: the record is updated in memory
\* and saveScore is called.
SubmitScoreFrom(self, scoreIn, namesIn) ==
  /\ rpc[self] = "idle"
  /\ \E addr \in Addrs, score \in scoreIn,
        profile_name \in namesIn, email \in EmailInputs, level \in LevelInputs :
       LET rec == UpdatedScore(scores, addr, score, level, profile_name, email) IN
       /\ scores' = PutScore(scores, rec)
       /\ rpc' = [rpc EXCEPT ![self] = "saveScore"]
       /\ rloc' = [rloc EXCEPT ![self] =
            [IdleReq EXCEPT !.kind = "score", !.addr = addr, !.serverScore = score,
                            !.level = level, !.profile_name = profile_name,
                            !.email = email, !.saved = rec]]
  /\ UNCHANGED <<restVars, now, settleVars, SESSIONS, verified_plays>>

SubmitScore(self) == SubmitScoreFrom(self, ScoreInputs, ProfileInputs)

\* saveScore, lines 114-146: its query settles; on success db.scores[addr]
\* is replaced by a record of the fields read when saveScore was called.
\* Then the handler answers (lines 357 / 412, or the catch).
SaveScoreDone(self) ==
  /\ rpc[self] = "saveScore"
  /\ \E ok \in BOOLEAN :
       IF ok
       THEN /\ scores' = PutScore(scores, rloc[self].saved)
            /\ Respond(self, rloc[self], 200, Null)
       ELSE /\ Respond(self, rloc[self], 500, "db error")
            /\ UNCHANGED scores
  /\ UNCHANGED <<restVars, now, settleVars, SESSIONS, verified_plays>>

----------------------------------------------------------------------------
(* POST /api/update-profile *)

\* Lines 443-450: the record of addr gets the new name in memory and
\* saveScore is called, which reads the record's fields and sends its query.
SetNameAndSave(self, loc) ==
  LET old == IF HasScore(scores, loc.addr) THEN ScoreOf(scores, loc.addr)
             ELSE ScoreRecord(loc.addr, Null, Null, 0, NullScore, 0, 1)
      rec == [old EXCEPT !.profile_name = loc.profile_name]
  IN /\ scores' = PutScore(scores, rec)
     /\ rpc' = [rpc EXCEPT ![self] = "profileSaveScore"]
     /\ rloc' = [rloc EXCEPT ![self] = [loc EXCEPT !.saved = rec]]

\* Lines 420-441: the checks, up to the DELETE of the old name when the
\* caller owns one, else straight on to the record update.
UpdateProfile(self) ==
  /\ rpc[self] = "idle"
  /\ \E addr \in Addrs, raw \in ProfileRaw \cup {Null} :
       LET loc == [IdleReq EXCEPT !.kind = "profile", !.addr = addr, !.profile_name = raw] IN
       IF raw = Null
       THEN /\ Respond(self, loc, 400, "Missing user or profile_name")
            /\ UNCHANGED <<scores, profileNames>>
       ELSE
         LET normalized == normalizeProfileName(raw)
             existingOwner == profileNames[normalized]
             prev == IF HasScore(scores, addr) THEN ScoreOf(scores, addr).profile_name ELSE Null
         IN
         IF existingOwner # Null /\ existingOwner # addr
         THEN /\ Respond(self, loc, 409, "profile_name already exists")
              /\ UNCHANGED <<scores, profileNames>>
         ELSE IF prev # Null /\ profileNames[normalizeProfileName(prev)] = addr
         THEN /\ rpc' = [rpc EXCEPT ![self] = "profileDelete"]
              /\ rloc' = [rloc EXCEPT ![self] =
                   [loc EXCEPT !.oldNormalized = normalizeProfileName(prev)]]
              /\ UNCHANGED <<scores, profileNames>>
         ELSE /\ SetNameAndSave(self, loc)
              /\ UNCHANGED profileNames
  /\ UNCHANGED <<ret, now, settleVars, SESSIONS, verified_plays>>

\* Lines 439-450: the DELETE settles; the old name leaves the index and the
\* record update follows.
ProfileDeleteDone(self) ==
  /\ rpc[self] = "profileDelete"
  /\ \E ok \in BOOLEAN :
       IF ok
       THEN /\ profileNames' = [profileNames EXCEPT ![rloc[self].oldNormalized] = Null]
            /\ SetNameAndSave(self, rloc[self])
       ELSE /\ Respond(self, rloc[self], 500, "db error")
            /\ UNCHANGED <<scores, profileNames>>
  /\ UNCHANGED <<ret, now, settleVars, SESSIONS, verified_plays>>

\* Line 450: saveScore settles; saveProfileName is called next.
ProfileSaveScoreDone(self) ==
  /\ rpc[self] = "profileSaveScore"
  /\ \E ok \in BOOLEAN :
       IF ok
       THEN /\ scores' = PutScore(scores, rloc[self].saved)
            /\ rpc' = [rpc EXCEPT ![self] = "profileSaveName"]
            /\ UNCHANGED rloc
       ELSE /\ Respond(self, rloc[self], 500, "db error")
            /\ UNCHANGED scores
  /\ UNCHANGED <<restVars, now, settleVars, SESSIONS, verified_plays>>

\* Line 451 and saveProfileName: the upsert settles, the index takes the
\* caller as owner of the name and the handler answers.
ProfileSaveNameDone(self) ==
  /\ rpc[self] = "profileSaveName"
  /\ \E ok \in BOOLEAN :
       IF ok
       THEN /\ profileNames' = [profileNames EXCEPT
                 ![normalizeProfileName(rloc[self].profile_name)] = rloc[self].addr]
            /\ Respond(self, rloc[self], 200, Null)
       ELSE /\ Respond(self, rloc[self], 500, "db error")
            /\ UNCHANGED profileNames
  /\ UNCHANGED <<ret, now, scores, settleVars, SESSIONS, verified_plays>>

\* submit-score with a profile_name in the body
SubmitScoreNamed(self) == SubmitScoreFrom(self, {5}, ProfileRaw)

\* The stores at start: empty, or a1 owning the name n1.
ProfileStores ==
  { [scores |-> <<>>, profileNames |-> NoNames],
    [scores |-> <<ScoreRecord("a1", "n1", Null, 0, NullScore, 0, 1)>>,
     profileNames |-> [NoNames EXCEPT !["n1"] = "a1"]] }

InitProfile ==
  /\ now = 1
  /\ calls = 0
  /\ \E st \in ProfileStores : scores = st.scores /\ profileNames = st.profileNames
  /\ periods = [p \in Periods |-> NoRecord]
  /\ spc = [s \in SettleProcs |-> "idle"]
  /\ sloc = [s \in SettleProcs |-> IdleLoc]
  /\ txCount = 0
  /\ confirmedPays = [p \in Periods |-> 0]
  /\ blocked = FALSE
  /\ SESSIONS = [sid \in SessionIds |-> NoSession]
  /\ verified_plays = {}
  /\ rpc = [r \in Reqs |-> "idle"]
  /\ rloc = [r \in Reqs |-> IdleReq]
  /\ ret = NoRet

NextProfile ==
  \E self \in Reqs :
    \/ UpdateProfile(self)
    \/ ProfileDeleteDone(self)
    \/ ProfileSaveScoreDone(self)
    \/ ProfileSaveNameDone(self)
    \/ SubmitScoreNamed(self)
    \/ SaveScoreDone(self)

SpecProfile == InitProfile /\ [][NextProfile]_vars

----------------------------------------------------------------------------
(* The settlement engine with its two triggers *)

\* db.scores when settlements run: stores the submit handlers can build.
SettleStores ==
  { <<>>,
    <<ScoreRecord("a1", Null, Null, 0, 0, 1, 1),
      ScoreRecord("a2", Null, Null, 7, 7, 1, 1)>> }

Init ==
  /\ now = DURATION_MS
  /\ calls = 0
  /\ scores \in SettleStores
  /\ periods = [p \in Periods |-> NoRecord]
  /\ spc = [s \in SettleProcs |-> "idle"]
  /\ sloc = [s \in SettleProcs |-> IdleLoc]
  /\ txCount = 0
  /\ confirmedPays = [p \in Periods |-> 0]
  /\ blocked = FALSE
  /\ SESSIONS = [sid \in SessionIds |-> NoSession]
  /\ verified_plays = {}
  /\ rpc = [r \in Reqs |-> "idle"]
  /\ rloc = [r \in Reqs |-> IdleReq]
  /\ profileNames = NoNames
  /\ ret = NoRet

Next ==
  \/ Tick
  \/ CronJob("cron")
  \/ \E self \in NowProcs : ProcessNow(self)
  \/ \E self \in SettleProcs :
       \/ SaveProcessingDone(self)
       \/ PoolBalanceDone(self)
       \/ PayPlayersSent(self)
       \/ PayPlayersConfirmed(self)
       \/ FollowUpDone(self)
       \/ SavePaidDone(self)
       \/ SaveFailedDone(self)

Spec == Init /\ [][Next]_vars

----------------------------------------------------------------------------
(* The triggers of index.js as it starts them: the cron job is created with
   scheduled: false and stopped at once (lines 608-617) and nothing starts
   it, so its callback never runs; settle is entered by process-now only.
   Time passes and every awaited call settles; nobody has to call
   process-now. *)

SettleStep(self) ==
  \/ SaveProcessingDone(self)
  \/ PoolBalanceDone(self)
  \/ PayPlayersSent(self)
  \/ PayPlayersConfirmed(self)
  \/ FollowUpDone(self)
  \/ SavePaidDone(self)
  \/ SaveFailedDone(self)

NextCron ==
  \/ Tick
  \/ \E self \in NowProcs : ProcessNow(self)
  \/ \E self \in NowProcs : SettleStep(self)

SpecCron ==
  /\ Init
  /\ [][NextCron]_vars
  /\ WF_vars(Tick)
  /\ \A self \in NowProcs : WF_vars(SettleStep(self))

----------------------------------------------------------------------------
(* The settlement engine beside the admin endpoint that wipes the periods *)

\* POST /admin/wipe-periods: with the admin secret, DELETE FROM periods and,
\* once the query has resolved, db.periods = {}.
WipePeriods ==
  /\ \E authed \in BOOLEAN, ok \in BOOLEAN :
       periods' = IF authed /\ ok THEN [p \in Periods |-> NoRecord] ELSE periods
  /\ UNCHANGED <<restVars, now, scores, submitVars, calls, spc, sloc, txCount,
                 confirmedPays, blocked>>

NextWipe ==
  \/ Next
  \/ WipePeriods

SpecWipe == Init /\ [][NextWipe]_vars

----------------------------------------------------------------------------
(* computeWinnersFromOffchain over many stores and pool balances *)

MaxPlayers == 4          \* records in db.scores
MaxPool == 12            \* pool balances 0..MaxPool, beside the two below

HOUSE_FEE_BPS == 100     \* process.env.HOUSE_FEE_BPS || 100
TOP_N == 3               \* process.env.TOP_N || 3

WinnerAddrs == <<"a1", "a2", "a3", "a4", "a5">>
WinnerScores == {0, 3, 7}
WinnerPools == (0..MaxPool) \cup {1000, 1428}

\* db.scores as loadDb may leave it: up to MaxPlayers records.
WinnerStores ==
  UNION { { [i \in 1..n |-> ScoreRecord(WinnerAddrs[i], Null, Null, hs[i], hs[i], 1, 1)] :
              hs \in [1..n -> WinnerScores] } : n \in 0..MaxPlayers }

InitWinners ==
  /\ now = DURATION_MS
  /\ calls = 0
  /\ scores \in WinnerStores
  /\ periods = [p \in Periods |-> NoRecord]
  /\ spc = [s \in SettleProcs |-> "idle"]
  /\ sloc = [s \in SettleProcs |-> IdleLoc]
  /\ txCount = 0
  /\ confirmedPays = [p \in Periods |-> 0]
  /\ blocked = FALSE
  /\ SESSIONS = [sid \in SessionIds |-> NoSession]
  /\ verified_plays = {}
  /\ rpc = [r \in Reqs |-> "idle"]
  /\ rloc = [r \in Reqs |-> IdleReq]
  /\ profileNames = NoNames
  /\ ret = NoRet

\* Line 349: `const result = await computeWinnersFromOffchain(contract, db,
\* TOP_N, HOUSE_FEE_BPS)`, on its own: the result is kept in the caller's
\* locals.
ComputeWinners ==
  /\ spc["cron"] = "idle"
  /\ \E ok \in BOOLEAN, pb \in WinnerPools :
       sloc' = [sloc EXCEPT !["cron"].result = computeWinnersFromOffchain(ok, pb, scores)]
  /\ spc' = [spc EXCEPT !["cron"] = "computed"]
  /\ UNCHANGED <<restVars, now, scores, submitVars, calls, periods, txCount, confirmedPays, blocked>>

NextWinners == ComputeWinners

SpecWinners == InitWinners /\ [][NextWinners]_vars

----------------------------------------------------------------------------
(* computePeriod over many timestamps and durations *)

MaxTs == 12              \* timestamps -MaxTs..MaxTs around the anchor
MaxDur == 5              \* durations 1..MaxDur

\* A call computePeriod(ts, D), as process-now, the cron job and
\* GET /api/period make it.
ComputePeriodCall ==
  /\ \E ts \in (0 - MaxTs)..MaxTs, D \in 1..MaxDur :
       ret' = [fn |-> "computePeriod", ts |-> ts, D |-> D, out |-> computePeriod(ts, D)]
  /\ UNCHANGED <<now, scores, settleVars, submitVars, profileNames>>

NextPeriod == ComputePeriodCall

SpecPeriod == Init /\ [][NextPeriod]_vars

----------------------------------------------------------------------------
(* getLeaderboard(db, limit, user) and GET /api/leaderboard *)

NullRank == 0            \* rank: null (ranks start at 1)

\* Array.prototype.slice(0, n): a negative n counts from the end.
Slice0(s, n) ==
  LET e == IF n < 0 THEN (IF Len(s) + n < 0 THEN 0 ELSE Len(s) + n)
           ELSE (IF n > Len(s) THEN Len(s) ELSE n)
  IN SubSeq(s, 1, e)

\* String(user).trim().toLowerCase() on the addresses the clients send.
LowerAddr(user) == IF user = "A1" THEN "a1" ELSE user

\* findIndex(x => x.user_address === addr) + 1, or 0 when there is none.
RECURSIVE FindRank(_, _, _)
FindRank(players, addr, i) ==
  IF i > Len(players) THEN 0
  ELSE IF players[i].user_address = addr THEN i
  ELSE FindRank(players, addr, i + 1)

PlayerEntry(p, rank) ==
  [user_address |-> p.user_address, profile_name |-> p.profile_name,
   score |-> p.highest_score, level |-> p.level, rank |-> rank]

\* A leaderboard that keeps the records with no positive score.
getLeaderboardUnfiltered(store, limit, user) ==
  LET scoredPlayers == SortDesc(store)
      top == Slice0(scoredPlayers, limit)
  IN [leaderboard |-> [i \in 1..Len(top) |-> PlayerEntry(top[i], i)],
      player |-> IF user = Null \/ ~HasScore(store, user) THEN <<>>
                 ELSE << PlayerEntry(ScoreOf(store, user),
                                     FindRank(scoredPlayers, user, 1)) >>]

\* Lines 208-263; `user` is already trimmed and lowercased by the route.
\* player is <<>> for null, else a one-element tuple.
getLeaderboard(store, limit, user) ==
  LET scoredPlayers == SortDesc(SelectSeq(store, LAMBDA p : p.highest_score > 0))
      top == Slice0(scoredPlayers, limit)
  IN [leaderboard |-> [i \in 1..Len(top) |-> PlayerEntry(top[i], i)],
      player |-> IF user = Null \/ ~HasScore(store, user) THEN <<>>
                 ELSE LET p == ScoreOf(store, user)
                          rank == IF p.highest_score > 0
                                  THEN FindRank(scoredPlayers, user, 1)
                                  ELSE NullRank
                      IN << PlayerEntry(p, rank) >>]

\* req.query.limit (0 when absent) and req.query.user
LimitInputs == {0 - 1, 0, 1, 2, 3}
UserInputs == {Null, "a1", "A1", "a3", "zz"}

\* GET /api/leaderboard
GetLeaderboard ==
  /\ \E q \in LimitInputs, user \in UserInputs :
       LET given == IF q = 0 THEN 10 ELSE q
           limit == IF given > 100 THEN 100 ELSE given
           u     == IF user = Null THEN Null ELSE LowerAddr(user)
       IN ret' = [fn |-> "getLeaderboard", limit |-> limit, user |-> u,
                  out |-> getLeaderboard(scores, limit, u)]
  /\ UNCHANGED <<now, scores, settleVars, submitVars, profileNames>>

NextBoard == GetLeaderboard

SpecBoard == InitWinners /\ [][NextBoard]_vars

----------------------------------------------------------------------------
(* Replay validation and scoring over request bodies as JSON carries them   *)

MaxReplayLen == 3        \* entries of an enumerated replay

\* The values of ev.time and ev.score.  A number is n, or n + 0.5 with
\* `half`; the other kinds are what Number() does not find a number in.
JNum(n) == [k |-> "number", n |-> n, half |-> FALSE]
JHalf(n) == [k |-> "number", n |-> n, half |-> TRUE]
JNull == [k |-> "null", n |-> 0, half |-> FALSE]
JUndef == [k |-> "undefined", n |-> 0, half |-> FALSE]

\* Number(v) with Number.isFinite of the outcome: null is 0, a missing field
\* is NaN.
Number(v) ==
  IF v.k = "number" THEN [finite |-> TRUE, n |-> v.n, half |-> v.half]
  ELSE IF v.k = "null" THEN [finite |-> TRUE, n |-> 0, half |-> FALSE]
  ELSE [finite |-> FALSE, n |-> 0, half |-> FALSE]

\* t < 0 and Math.floor(sc) of a finite number n (+ 0.5)
IsNegative(x) == x.n < 0
MathFloor(x) == x.n

\* An entry of the replay: an object with its time and score, or a value
\* that is no object (null, a number).
RawEv(t, sc) == [obj |-> TRUE, time |-> t, score |-> sc]
NonObject == [obj |-> FALSE, time |-> JUndef, score |-> JUndef]

\* Lines 266-276: what the loop finds wrong with entry ev, "" when nothing.
EntryError(ev) ==
  IF ~ev.obj THEN "invalid entry"
  ELSE LET t == Number(ev.time)
           sc == Number(ev.score) IN
       IF ~t.finite \/ IsNegative(t) \/ ~sc.finite \/ IsNegative(sc)
       THEN "invalid time/score"
       ELSE ""

\* A loop that keeps the last entry it finds wrong.
RECURSIVE LastBad(_, _)
LastBad(entries, i) ==
  IF i < 1 THEN 0
  ELSE IF EntryError(entries[i]) # "" THEN i
  ELSE LastBad(entries, i - 1)

FirstBadFromEnd(entries, i) == LastBad(entries, Len(entries))

\* The loop of lines 265-280 returns at the first entry it finds wrong:
\* its position from i on, 0 when there is none.
RECURSIVE FirstBad(_, _)
FirstBad(entries, i) ==
  IF i > Len(entries) THEN 0
  ELSE IF EntryError(entries[i]) # "" THEN i
  ELSE FirstBad(entries, i + 1)

\* What the loop has pushed and kept for a replay with nothing wrong: the
\* floored scores, and the times as they are (whole numbers here).
Scored(entries) ==
  [i \in 1..Len(entries) |->
     Ev(Number(entries[i].time).n, MathFloor(Number(entries[i].score)))]

NoOut(error, index) ==
  [ok |-> FALSE, error |-> error, index |-> index, serverScore |-> 0, serverSurvival |-> 0]

\* Lines 247-289 for a replay that is in the body: shape, entries, score.
\* The index of an error is that of the message, counted from 0.
ReplayCheck(replay) ==
  IF Len(replay) = 2 THEN NoOut("replay must be an array", 0)
  ELSE
    LET entries == replay[1] IN
    IF Len(entries) = 0 \/ Len(entries) > MAX_ENTRIES
    THEN NoOut("replay must have 1..MAX_ENTRIES entries", 0)
    ELSE
      LET bad == FirstBad(entries, 1) IN
      IF bad # 0 THEN NoOut(EntryError(entries[bad]), bad - 1)
      ELSE [ok |-> TRUE, error |-> "", index |-> 0,
            serverScore |-> ServerScore(Scored(entries)),
            serverSurvival |-> ServerSurvival(Scored(entries))]

RawTimes == {JNum(0), JNum(3), JNum(5), JNum(0 - 1), JNull}
RawScores == {JNum(10), JNum(30), JNum(50), JHalf(50), JHalf(0 - 1), JUndef}
RawEntries == {RawEv(t, sc) : t \in RawTimes, sc \in RawScores} \cup {NonObject}

\* The replays of the requests: every array of up to MaxReplayLen entries,
\* and besides an array one entry too long and a value that is no array.
OtherReplays ==
  { << [i \in 1..(MAX_ENTRIES + 1) |-> RawEv(JNum(0), JNum(10))] >>,
    <<"object", <<>>>> }

Verify(replay) ==
  ret' = [fn |-> "verifyReplay", replay |-> replay, out |-> ReplayCheck(replay)]

VerifyReplay ==
  /\ ret = NoRet
  /\ \E long \in BOOLEAN :
       IF long
       THEN \E replay \in OtherReplays : Verify(replay)
       ELSE \E n \in 0..MaxReplayLen : \E entries \in [1..n -> RawEntries] :
              Verify(<<entries>>)
  /\ UNCHANGED <<now, scores, settleVars, submitVars, profileNames>>

NextReplay == VerifyReplay

\* The score store plays no part here: it starts empty.
InitReplay == Init /\ scores = <<>>

SpecReplay == InitReplay /\ [][NextReplay]_vars

----------------------------------------------------------------------------
(* The submit handlers: two requests, in sequence or interleaved *)

InitSubmit ==
  /\ now = 1
  /\ calls = 0
  /\ scores = <<>>
  /\ periods = [p \in Periods |-> NoRecord]
  /\ spc = [s \in SettleProcs |-> "idle"]
  /\ sloc = [s \in SettleProcs |-> IdleLoc]
  /\ txCount = 0
  /\ confirmedPays = [p \in Periods |-> 0]
  /\ blocked = FALSE
  /\ SESSIONS = [sid \in SessionIds |-> NoSession]
  /\ verified_plays = {}
  /\ rpc = [r \in Reqs |-> "idle"]
  /\ rloc = [r \in Reqs |-> IdleReq]
  /\ profileNames = NoNames
  /\ ret = NoRet

NextSubmit ==
  \/ Tick
  \/ StartSession
  \/ \E self \in Reqs :
       \/ SubmitReplay(self)
       \/ DupCheckDone(self)
       \/ InsertDone(self)
       \/ SubmitScore(self)
       \/ SaveScoreDone(self)

SpecSubmit == InitSubmit /\ [][NextSubmit]_vars

----------------------------------------------------------------------------
(* Claims about the settlement engine *)

CurrentPeriod == computePeriod(now - SettleOffset, DURATION_MS).periodIndex

\* An invocation that has passed the guard and has not yet recorded an
\* outcome for its period.
Settling(self) ==
  spc[self] \in {"saveProcessing", "poolBalance", "payPlayers", "payPlayersWait",
                 "payHouse", "payHouseWait", "resetPayments", "resetPaymentsWait"}

InLog(self, e) == \E i \in 1..Len(sloc[self].log) : sloc[self].log[i] = e

\* C1: for every period, payPlayers is confirmed at most once, whatever the
\* sequence of settle calls (cron, process-now, retries after `failed`).
C1_NeverDoublePaid ==
  \A p \in Periods : confirmedPays[p] <= 1

\* C4: a settle invoked while its period's record is `processing` or `paid`
\* returns at once: the record, every invocation in flight and the ledger
\* are as before, and the new invocation makes no ledger call.
C4_GuardedSettleIsNoOp ==
  [][ (calls' = calls + 1 /\ periods[CurrentPeriod].status \in {"processing", "paid"})
        => /\ periods' = periods
           /\ spc' = spc
           /\ sloc' = sloc
           /\ txCount' = txCount
           /\ confirmedPays' = confirmedPays ]_vars

\* C4 witness: the guard has turned a settle away from a period that a
\* first settle ended `paid` after paying winners.
C4_Witness ==
  /\ blocked
  /\ \E p \in Periods : periods[p].status = "paid" /\ confirmedPays[p] = 1
  /\ \A s \in SettleProcs : spc[s] = "idle"

\* C5: a cron-triggered settle and a process-now settle of the same period
\* are never both past the guard with their outcome still to be recorded.
C5_NeverDoubleInflight ==
  \A n \in NowProcs :
    ~(Settling("cron") /\ Settling(n) /\ sloc["cron"].p = sloc[n].p)

\* C8: when payPlayers or its confirmation wait fails, that settle marks the
\* period `failed` with the error, calls neither payHouse nor resetPayments,
\* and does nothing more than persist the failed record.
C8_PayFailureMarksFailed ==
  [][ \A self \in SettleProcs :
        /\ (~sloc[self].payFailed /\ sloc'[self].payFailed)
             => /\ periods'[sloc[self].p].status = "failed"
                /\ periods'[sloc[self].p].error # Null
                /\ spc'[self] = "saveFailed"
                /\ sloc'[self].log = sloc[self].log
                /\ ~InLog(self, "payHouse") /\ ~InLog(self, "resetPayments")
        /\ sloc[self].payFailed
             => /\ spc'[self] \in {"saveFailed", "idle"}
                /\ sloc'[self].log = sloc[self].log \/ spc'[self] = "idle"
                /\ spc'[self] = "idle" =>
                     \/ periods' = periods
                     \/ periods'[sloc[self].p].status = "failed" ]_vars

\* C8 witness: a settle whose payPlayers confirmation wait failed is
\* persisting the failed record.
C8_Witness ==
  \E self \in SettleProcs :
    /\ sloc[self].payFailed
    /\ sloc[self].tx > 0
    /\ spc[self] = "saveFailed"
    /\ periods[sloc[self].p].status = "failed"

\* C9: a settle never records `paid` after its payHouse or resetPayments
\* call failed.
C9_FollowUpFailureMarksFailed ==
  \A self \in SettleProcs :
    (spc[self] = "savePaid" /\ sloc[self].periodObj.status = "paid")
      => /\ ~InLog(self, "resetPayments failed")
         /\ ~InLog(self, "payHouse failed")

\* C10: a settle that records `paid` with a non-empty payout list has had
\* payPlayers, then payHouse (when the house fee is positive), then
\* resetPayments confirmed, in this order.
C10_PaidOnlyAfterAllLedgerSteps ==
  \A self \in SettleProcs :
    (spc[self] = "savePaid" /\ Len(sloc[self].periodObj.payouts) > 0)
      => sloc[self].log =
           <<"payPlayers", "payPlayers confirmed">>
           \o (IF sloc[self].result.house > 0
               THEN <<"payHouse", "payHouse confirmed">> ELSE <<>>)
           \o <<"resetPayments", "resetPayments confirmed">>

\* C11: a settle that returns while no other invocation is in flight does
\* not leave its period `processing`: whatever failed after the guard, the
\* record it leaves is `failed` (or `paid` when nothing failed).
C11_NeverLeftProcessing ==
  [][ \A self \in SettleProcs :
        (/\ spc[self] # "idle" /\ spc'[self] = "idle"
         /\ \A o \in SettleProcs \ {self} : spc[o] = "idle")
          => periods'[sloc[self].p].status # "processing" ]_vars

\* C12: a settle never records `paid` after a ledger call of its own has
\* failed, the pool-balance read included.
C12_NoLedgerErrorSwallowed ==
  \A self \in SettleProcs :
    spc[self] \in {"saveNoWinners", "savePaid"}
      => /\ ~InLog(self, "poolBalance failed")
         /\ \A e \in {"payPlayers failed", "payHouse failed", "resetPayments failed"} :
              ~InLog(self, e)

\* C15: a step that is not a step of a settle invocation leaves every
\* `processing` or `paid` record as it is.
C15_OnlyEngineTouchesSettled ==
  [][ spc' = spc
        => \A p \in Periods :
             periods[p].status \in {"processing", "paid"} => periods'[p] = periods[p] ]_vars

\* C16: the status of a period's record changes only from open to
\* `processing`, from `processing` to `paid` or `failed`, and from `failed`
\* to `processing`; `paid` never changes.
C16_StatusTransitions ==
  [][ \A p \in Periods :
        \/ periods'[p].status = periods[p].status
        \/ <<periods[p].status, periods'[p].status>> \in
             { <<"open", "processing">>, <<"processing", "paid">>,
               <<"processing", "failed">>, <<"failed", "processing">> } ]_vars

----------------------------------------------------------------------------
(* Claims about sessions, replays and scores *)

Accepted(r) == rpc[r] = "done" /\ rloc[r].resp.status = 200

\* highestScore / gamesPlayed of an address in the ScoreStore (0 with no record)
HighestOf(store, addr) ==
  IF HasScore(store, addr) THEN ScoreOf(store, addr).highest_score ELSE 0
GamesOf(store, addr) ==
  IF HasScore(store, addr) THEN ScoreOf(store, addr).games_played ELSE 0

\* C2: two submit-replay requests carrying the same sessionId never both
\* succeed, whatever replay each carries.
C2_SessionConsumedOnce ==
  \A a, b \in Reqs :
    (a # b /\ rloc[a].kind = "replay" /\ rloc[b].kind = "replay"
       /\ rloc[a].sessionId = rloc[b].sessionId)
      => ~(Accepted(a) /\ Accepted(b))

\* C3: of two finished submit-replay requests with the same replay hash,
\* under different sessions, that both passed session and shape validation
\* and met no database failure, one is accepted and the other is answered
\* 409.
C3_DuplicateGets409 ==
  \A a, b \in Reqs :
    (a # b /\ rpc[a] = "done" /\ rpc[b] = "done"
       /\ rloc[a].kind = "replay" /\ rloc[b].kind = "replay"
       /\ rloc[a].sessionId # rloc[b].sessionId
       /\ rloc[a].rHash # <<>> /\ rloc[a].rHash = rloc[b].rHash
       /\ rloc[a].resp.error # "db error" /\ rloc[b].resp.error # "db error")
      => {rloc[a].resp.status, rloc[b].resp.status} = {200, 409}

\* C6: no step lowers the highestScore of an address.
C6_HighestScoreNeverDecreases ==
  [][ \A addr \in Addrs : HighestOf(scores', addr) >= HighestOf(scores, addr) ]_vars

\* C7: once every request is answered, none with a database failure, the
\* gamesPlayed of each address is the number of its accepted submissions.
C7_GamesPlayedCountsAccepted ==
  (\A r \in Reqs : rpc[r] = "done" /\ rloc[r].resp.status # 500)
    => \A addr \in Addrs :
         GamesOf(scores, addr) = Cardinality({r \in Reqs : Accepted(r) /\ rloc[r].addr = addr})

\* C13: a submit-replay request answered 400 or 409 inserts no VerifiedPlay,
\* creates or changes no ScoreRecord and leaves the session store as it was.
C13_RejectionHasNoSideEffect ==
  [][ \A r \in Reqs :
        (/\ rpc[r] # "done" /\ rpc'[r] = "done"
         /\ rloc'[r].kind = "replay"
         /\ rloc'[r].resp.status \in {400, 409})
          => /\ verified_plays' = verified_plays
             /\ scores' = scores
             /\ SESSIONS' = SESSIONS ]_vars

\* C13 witness: a request was rejected for an invalid entry while its session
\* was stored, and the same session was accepted for the other request.
C13_Witness ==
  \E a, b \in Reqs :
    /\ rpc[a] = "done" /\ rloc[a].resp.error = "invalid time/score"
    /\ Accepted(b) /\ rloc[b].kind = "replay"
    /\ rloc[a].sessionId = rloc[b].sessionId

\* C14: when a request alone is answered 500 after calling saveScore, the
\* score store in memory is as it was before the request (empty).
C14_FailedSaveLeavesNoMutation ==
  \A r \in Reqs :
    (/\ rpc[r] = "done" /\ rloc[r].resp.status = 500
     /\ rloc[r].saved # NoSaved
     /\ \A o \in Reqs \ {r} : rpc[o] = "idle")
      => scores = <<>>

----------------------------------------------------------------------------
(* Claims about the winners and their amounts *)

Computed == sloc["cron"].result

\* C17: the winner amounts plus the house fee of a computed result do not
\* exceed the pool balance that was read.
C17_PayoutsWithinPool ==
  spc["cron"] = "computed"
    => SumSeq(Computed.amounts) + Computed.house <= Computed.poolBalanceBN

\* C17 witness: four winners share a pool whose division leaves a remainder,
\* and amounts plus house fee use the pool balance up.
C17_Witness ==
  /\ spc["cron"] = "computed"
  /\ Len(Computed.winners) = 4
  /\ Computed.poolBalanceBN = 11
  /\ SumSeq(Computed.amounts) + Computed.house = Computed.poolBalanceBN

\* C18: with three winners and a payout pool of 1000 the amounts are
\* 500, 300, 200.
C18_ThreeWinnerSplit ==
  (/\ spc["cron"] = "computed"
   /\ Len(Computed.winners) = 3
   /\ Computed.poolBalanceBN - Computed.house = 1000)
    => Computed.amounts = <<500, 300, 200>>

\* C19: the amounts paid out add up to the pool balance less
\* floor(balance * HOUSE_FEE_BPS / 10000).
C19_HouseFeeFromConfig ==
  (spc["cron"] = "computed" /\ Len(Computed.winners) > 0)
    => SumSeq(Computed.amounts) =
         Computed.poolBalanceBN - (Computed.poolBalanceBN * HOUSE_FEE_BPS) \div 10000

\* C20: the winners are the first min(TOP_N, eligible) addresses of the
\* store ranked by descending highest_score, a record being eligible when
\* its highest_score is positive.
C20_WinnersAreTopEligible ==
  (spc["cron"] = "computed" /\ Computed.poolBalanceBN > 0)
    => LET eligible == SelectSeq(SortDesc(scores), LAMBDA r : r.highest_score > 0)
           top == Take(eligible, TOP_N)
       IN Computed.winners = [i \in 1..Len(top) |-> top[i].user_address]

\* The floor of the k-th share of a payout pool split over n winners
FloorShare(poolAmt, n, k) ==
  (poolAmt * distributionPercents(n)[k]) \div SumSeq(distributionPercents(n))

\* C29: when a computed result has winners, its amounts add up to the payout
\* pool (the balance less the house fee taken); every winner but the first
\* gets the floor of its share, and the first, who has the highest score,
\* gets the floor of its share plus the whole residual.
C29_ResidualToTopWinner ==
  (spc["cron"] = "computed" /\ Len(Computed.winners) > 0)
    => LET n == Len(Computed.winners)
           poolAmt == Computed.poolBalanceBN - Computed.house
           floors == [k \in 1..n |-> FloorShare(poolAmt, n, k)]
       IN /\ SumSeq(Computed.amounts) = poolAmt
          /\ \A k \in 2..n : Computed.amounts[k] = floors[k]
          /\ Computed.amounts[1] = floors[1] + (poolAmt - SumSeq(floors))
          /\ \A i \in 1..Len(scores) :
               scores[i].highest_score <= ScoreOf(scores, Computed.winners[1]).highest_score

\* C29 witness: three or more winners and a division that leaves a residual,
\* which the first winner got.
C29_Witness ==
  /\ spc["cron"] = "computed"
  /\ Len(Computed.winners) >= 3
  /\ Computed.amounts[1] >
       FloorShare(Computed.poolBalanceBN - Computed.house, Len(Computed.winners), 1)

\* The split of the older computeWinnersFromOnchain (leaderboard.js, lines
\* 70-79), which processPeriod no longer calls.
split(n) ==
  IF n = 1 THEN <<100>>
  ELSE IF n = 2 THEN <<60, 40>>
  ELSE IF n = 3 THEN <<50, 30, 20>>
  ELSE LET base == 100 \div n
           rem  == 100 - base * n
       IN [i \in 1..n |-> IF i <= rem THEN base + 1 ELSE base]

\* C30: the percentages by which a computed result with N winners was split
\* add up to 100 and are 100 for N = 1, 60/40 for N = 2, 50/30/20 for N = 3
\* and floor(100/N), plus one for the first 100 mod N entries, for N > 3.
C30_SplitSumsTo100 ==
  (spc["cron"] = "computed" /\ Len(Computed.winners) > 0)
    => LET percents == distributionPercents(Len(Computed.winners))
       IN /\ SumSeq(percents) = 100
          /\ percents = split(Len(Computed.winners))

----------------------------------------------------------------------------
(* Claims about periods, the leaderboard and profile names *)

\* C21: computePeriod(t, D) gives periodStart <= t < periodEnd with
\* periodEnd - periodStart = D, and a second call with the same t and D
\* gives the same periodIndex.
C21_PeriodContainsTimestamp ==
  ret.fn = "computePeriod"
    => /\ ret.out.periodStart <= ret.ts
       /\ ret.ts < ret.out.periodEnd
       /\ ret.out.periodEnd - ret.out.periodStart = ret.D
       /\ computePeriod(ret.ts, ret.D).periodIndex = ret.out.periodIndex

\* C21 witness: a timestamp before the anchor that is not on a period
\* boundary.
C21_Witness ==
  /\ ret.fn = "computePeriod"
  /\ ret.ts = 0 - 3 /\ ret.D = 2
  /\ ret.out.periodIndex = 0 - 2

\* C22: the leaderboard getLeaderboard returns holds no address whose
\* highest_score is <= 0, and the player record it returns has a null rank
\* exactly when the player's highest_score is <= 0.
C22_LeaderboardExcludesNonPositive ==
  ret.fn = "getLeaderboard"
    => /\ \A i \in 1..Len(ret.out.leaderboard) :
            HighestOf(scores, ret.out.leaderboard[i].user_address) > 0
       /\ ret.out.player # <<>>
            => (ret.out.player[1].rank = NullRank
                  <=> HighestOf(scores, ret.out.player[1].user_address) <= 0)

\* C22 witness: a store with a zero-score record that is asked for, beside
\* a positive one that is listed.
C22_Witness ==
  /\ ret.fn = "getLeaderboard"
  /\ ret.out.player # <<>>
  /\ ret.out.player[1].rank = NullRank
  /\ Len(ret.out.leaderboard) > 0
  /\ Len(ret.out.leaderboard) < Len(scores)

\* A finished update-profile request
ProfileDone(r) == rpc[r] = "done" /\ rloc[r].kind = "profile"

\* The addresses whose ScoreRecord carries the name n (normalized)
HoldersOf(n) ==
  {scores[i].user_address : i \in {j \in 1..Len(scores) :
     scores[j].profile_name # Null /\ normalizeProfileName(scores[j].profile_name) = n}}

\* C23: of two update-profile requests from different addresses for the same
\* normalized name, both answered and neither by a database failure, at
\* most one is answered 200 (the other 409), and at most one ScoreRecord
\* carries the name.
C23_OneOwnerPerName ==
  \A a, b \in Reqs :
    (/\ a # b /\ ProfileDone(a) /\ ProfileDone(b)
     /\ rloc[a].addr # rloc[b].addr
     /\ rloc[a].profile_name # Null /\ rloc[b].profile_name # Null
     /\ normalizeProfileName(rloc[a].profile_name) = normalizeProfileName(rloc[b].profile_name)
     /\ rloc[a].resp.status # 500 /\ rloc[b].resp.status # 500)
      => /\ {rloc[a].resp.status, rloc[b].resp.status} \in {{200, 409}, {409}}
         /\ Cardinality(HoldersOf(normalizeProfileName(rloc[a].profile_name))) <= 1

\* C24: every address owns at most one name of the index.
C24_OneNamePerAddress ==
  \A addr \in Addrs :
    Cardinality({n \in DOMAIN profileNames : profileNames[n] = addr}) <= 1

\* C25: a rename is all or nothing: while an update-profile request runs
\* alone, the name its caller owned is not out of the index unless the new
\* one is in; and after it was rejected or failed, the score store and the
\* index are as they were before it.
C25_RenameIsAtomic ==
  \A r \in Reqs :
    (/\ rloc[r].kind = "profile"
     /\ \A o \in Reqs \ {r} : rpc[o] = "idle")
      => /\ (rpc[r] = "done" /\ rloc[r].resp.status # 200)
              => [scores |-> scores, profileNames |-> profileNames] \in ProfileStores
         /\ (rpc[r] # "done" /\ rloc[r].oldNormalized # Null)
              => \/ profileNames[rloc[r].oldNormalized] = rloc[r].addr
                 \/ profileNames[normalizeProfileName(rloc[r].profile_name)] = rloc[r].addr

----------------------------------------------------------------------------
(* Claims about what a settled record carries, and the clock trigger *)

\* C26: a settle that is persisting `failed` after its payPlayers call was
\* confirmed has put the hash of that transaction in the failed record.
C26_FailedKeepsWinnersTxHash ==
  \A self \in SettleProcs :
    (spc[self] = "saveFailed" /\ InLog(self, "payPlayers confirmed"))
      => /\ periods[sloc[self].p].status = "failed"
         /\ periods[sloc[self].p].txHash = sloc[self].tx

\* C27: the record a settle builds and persists as `paid` after paying
\* winners carries the hash of its payPlayers transaction and one
\* {to, amount} entry per winner, in the order and with the amounts that
\* were passed to payPlayers; and every `paid` record in memory that lists
\* payouts carries a transaction hash.
C27_PaidCarriesTxAndPayouts ==
  /\ \A self \in SettleProcs :
       spc[self] = "savePaid"
         => LET rec == sloc[self].periodObj
                r == sloc[self].result IN
            /\ rec.status = "paid"
            /\ sloc[self].tx > 0 /\ rec.txHash = sloc[self].tx
            /\ Len(rec.payouts) = Len(r.winners)
            /\ \A k \in 1..Len(r.winners) :
                 rec.payouts[k] = [to |-> r.winners[k], amount |-> r.amounts[k]]
  /\ \A p \in Periods :
       (periods[p].status = "paid" /\ periods[p].payouts # <<>>)
         => periods[p].txHash > 0

\* C27 witness: a settle has ended `paid` for two winners and returned.
C27_Witness ==
  /\ \A s \in SettleProcs : spc[s] = "idle"
  /\ \E p \in Periods :
       /\ periods[p].status = "paid" /\ periods[p].txHash > 0
       /\ Len(periods[p].payouts) = 2

\* The end tick of period p has occurred.
PeriodEnded(p) == now >= FRIDAY_0_UTC + (p + 1) * DURATION_MS

\* C28: every period whose end tick has occurred is eventually attempted by
\* settle (its record leaves `open`), process-now being called or not.
C28_EndedPeriodEventuallyAttempted ==
  \A p \in Periods : PeriodEnded(p) ~> (periods[p].status # "open")

----------------------------------------------------------------------------
(* Claims about replay validation and scoring *)

Verified == ret.fn = "verifyReplay"

\* The entries of the replay that was verified, and what Number() makes of
\* the k-th time and score
Entries == ret.replay[1]
TimeAt(k) == Number(Entries[k].time)
ScoreAt(k) == Number(Entries[k].score)

\* C31: for a replay that passed validation, the server score is the floor
\* of the last entry's score when the times never decrease, and otherwise
\* the greatest floored score of all entries; survivalTicks is the last
\* entry's time.
C31_ServerScoreLastOrMax ==
  (Verified /\ ret.out.ok)
    => LET n == Len(Entries)
           nonDecreasing == \A k \in 2..n : TimeAt(k).n >= TimeAt(k - 1).n
       IN /\ nonDecreasing => ret.out.serverScore = MathFloor(ScoreAt(n))
          /\ ~nonDecreasing =>
               /\ \E k \in 1..n : ret.out.serverScore = MathFloor(ScoreAt(k))
               /\ \A k \in 1..n : ret.out.serverScore >= MathFloor(ScoreAt(k))
          /\ ret.out.serverSurvival = TimeAt(n).n

\* C31 witness: times 0, 5, 3 with scores 10, 50, 30 were scored 50.
C31_Witness ==
  /\ Verified
  /\ ret.replay = << << RawEv(JNum(0), JNum(10)), RawEv(JNum(5), JNum(50)),
                        RawEv(JNum(3), JNum(30)) >> >>
  /\ ret.out.ok /\ ret.out.serverScore = 50 /\ ret.out.serverSurvival = 3

\* Entry k of the verified replay is no object, or its time or score, as
\* Number() reads it, is not finite or is negative.
BadEntry(k) ==
  \/ ~Entries[k].obj
  \/ ~TimeAt(k).finite \/ TimeAt(k).n < 0
  \/ ~ScoreAt(k).finite \/ ScoreAt(k).n < 0

----------------------------------------------------------------------------
(* Claims about sessions, failed records, empty settlements and ranks *)

\* A step in which submit-replay request r is answered with error e
AnswersWith(r, e) ==
  /\ rpc[r] = "idle" /\ rpc'[r] = "done"
  /\ rloc'[r].kind = "replay" /\ rloc'[r].resp.error = e

\* C33: submit-replay answers `session not found` only for an id that is not
\* in the store, `session already used` only for a stored session flagged
\* used and `session expired` only for a stored one with now > expiresAt,
\* which it leaves in the store; and a session that has left the store was
\* given to a submission that is accepted (or still awaits saveScore).
C33_SessionLeavesOnlyWhenAccepted ==
  /\ [][\A r \in Reqs :
          LET s == SESSIONS[rloc'[r].sessionId] IN
          /\ AnswersWith(r, "session not found") => s.state # "stored"
          /\ AnswersWith(r, "session already used") => (s.state = "stored" /\ s.used)
          /\ AnswersWith(r, "session expired") =>
               (s.state = "stored" /\ now > s.expiresAt /\ SESSIONS' = SESSIONS)]_vars
  /\ [](\A sid \in SessionIds :
          SESSIONS[sid].state = "deleted"
            => \E r \in Reqs :
                 /\ rloc[r].kind = "replay" /\ rloc[r].sessionId = sid
                 /\ (rpc[r] = "saveScore" \/ Accepted(r)))

\* C34: every `failed` record, in memory or on its way to the database,
\* carries an error text, and no `paid` record carries one.
C34_FailedHasErrorPaidHasNone ==
  /\ \A p \in Periods :
       /\ periods[p].status = "failed" => periods[p].error \notin {Null, ""}
       /\ periods[p].status = "paid" => periods[p].error = Null
  /\ \A self \in SettleProcs :
       /\ spc[self] = "saveFailed" => sloc[self].periodObj.error \notin {Null, ""}
       /\ spc[self] \in {"savePaid", "saveNoWinners"} => sloc[self].periodObj.error = Null

\* C34 witness: a period is `paid` by the second payPlayers transaction sent
\* for it, the first one having failed to confirm, and carries no error.
C34_Witness ==
  /\ \A s \in SettleProcs : spc[s] = "idle"
  /\ \E p \in Periods :
       /\ periods[p].status = "paid" /\ periods[p].txHash = 2
       /\ periods[p].error = Null
       /\ confirmedPays[p] = 1
       /\ \A q \in Periods \ {p} : periods[q].status = "open"

\* C35: a settle that found no winners has made no ledger payment call and
\* persists its period as `paid` with an empty payout list; and a settle
\* invoked on a period so recorded changes nothing and calls nothing,
\* whatever the scores and the pool balance are by then.
C35_EmptySettlementIsFinal ==
  /\ [](\A self \in SettleProcs :
          spc[self] = "saveNoWinners"
            => /\ sloc[self].result.winners = <<>>
               /\ sloc[self].tx = 0
               /\ ~\E e \in {"payPlayers", "payHouse", "resetPayments"} : InLog(self, e)
               /\ sloc[self].periodObj.status = "paid"
               /\ sloc[self].periodObj.payouts = <<>>)
  /\ [][ (/\ calls' = calls + 1
          /\ periods[CurrentPeriod].status = "paid"
          /\ periods[CurrentPeriod].payouts = <<>>)
           => /\ periods' = periods
              /\ spc' = spc
              /\ sloc' = sloc
              /\ txCount' = txCount
              /\ confirmedPays' = confirmedPays ]_vars

\* C35 witness: with scores in the store, a period was recorded `paid` to
\* nobody, no transaction was ever sent, and a later settle was turned away.
C35_Witness ==
  /\ blocked /\ txCount = 0 /\ scores # <<>>
  /\ \A s \in SettleProcs : spc[s] = "idle"
  /\ \E p \in Periods :
       /\ periods[p].status = "paid" /\ periods[p].payouts = <<>>
       /\ \A q \in Periods \ {p} : periods[q].status = "open"

\* The records of the store that come before the record at position i in
\* the full ranking: a higher score, or the same score and earlier in the
\* store's iteration order.
AheadOf(i) ==
  {k \in 1..Len(scores) :
     \/ scores[k].highest_score > scores[i].highest_score
     \/ scores[k].highest_score = scores[i].highest_score /\ k < i}

\* C36: the entries of the leaderboard have rank 1, 2, ... in order, scores
\* that never increase, and among equal scores the order of the store; the
\* rank of a requested player with a positive score is its position in the
\* ranking of the whole store, and is the rank of its entry when listed.
C36_LeaderboardOrderAndRank ==
  ret.fn = "getLeaderboard"
    => LET lb == ret.out.leaderboard IN
       /\ \A i \in 1..Len(lb) :
            /\ lb[i].rank = i
            /\ lb[i].score = HighestOf(scores, lb[i].user_address)
            /\ Cardinality(AheadOf(ScoreIndex(scores, lb[i].user_address))) = i - 1
       /\ (ret.out.player # <<>> /\ ret.out.player[1].score > 0)
            => LET pl == ret.out.player[1] IN
               /\ pl.rank = 1 + Cardinality(AheadOf(ScoreIndex(scores, pl.user_address)))
               /\ \A i \in 1..Len(lb) :
                    lb[i].user_address = pl.user_address => lb[i].rank = pl.rank

\* C36 witness: the requested player is listed third, behind a record of the
\* same score that is earlier in the store.
C36_Witness ==
  /\ ret.fn = "getLeaderboard"
  /\ ret.out.player # <<>>
  /\ ret.out.player[1].rank = 3
  /\ Len(ret.out.leaderboard) >= 3
  /\ ret.out.leaderboard[3].user_address = ret.out.player[1].user_address
  /\ ret.out.leaderboard[2].score = ret.out.leaderboard[3].score

====
